---- MODULE Spec2Model ----
(***************************************************************************)
(* A model of fault_injector/injection/thread_pool.py: ThreadWrapper,      *)
(* ThreadPool and InjectionThreadPool.  Worker threads, the controller     *)
(* thread (start / stop / submit_task) and the child processes are the     *)
(* processes of the model; every action is one access to shared state      *)
(* (a lock-protected section, a semaphore operation, a read or a write of  *)
(* a pool attribute) together with the thread-local code around it.        *)
(***************************************************************************)
EXTENDS Integers, Sequences, FiniteSets, TLC

\* ---------------------------------------------------------------- bounds
MaxRequests == 2
MaxTasks == 2
\* the clock runs from 0 to MaxTime: room for a task to wait for its start time
\* (MaxTs), to run, to be restarted and to reach its deadline (MaxDur)
MaxTime == 3
MaxTs == MaxTime - 2
MaxDur == MaxTime - 1

\* The clock counts seconds.  _correction_factor is a float that takes fractions
\* of a second: it is kept in units of 1/Second of a second, fine enough for five
\* successive corrections of a whole number of seconds to be exact.
Second == 10^5

\* Task.VALUE_DUR_NO_LIM: the duration that means "no timeout"
VALUE_DUR_NO_LIM == 0

Workers == 1..MaxRequests
Callers == {"ctl", "sub"}
Timestamps == {MaxTs}
Durations == {VALUE_DUR_NO_LIM, MaxDur}
\* exit codes a child can end with by itself
ExitCodes == {0, 1}
\* returncode of a child ended by Popen.terminate() (SIGTERM)
SIGTERM_CODE == -15
\* code of the error event of a task that was not run
NOT_RUN_CODE == -1

VARIABLES
    now,                \* time()
    initialized,        \* ThreadPool._initialized
    terminating,        \* ThreadPool._terminating
    threads,            \* ThreadPool._threads: "thread" or "None" per slot
    queue,              \* ThreadPool._queue (task ids)
    queueSem,           \* ThreadPool._queueSem
    skip_expired,       \* InjectionThreadPool._skip_expired
    retry_tasks,        \* InjectionThreadPool._retry_tasks
    retry_on_error,     \* InjectionThreadPool._retry_on_error
    root,               \* InjectionThreadPool._root
    session_start,      \* InjectionThreadPool._session_start
    session_start_abs,  \* InjectionThreadPool._session_start_abs
    correction_factor,  \* InjectionThreadPool._correction_factor
    thr,                \* the ThreadWrapper in each slot and its locals
    task,               \* the Task objects submitted so far
    events,             \* messages broadcast, per task
    apc,                \* position of each caller of the pool's API
    ai,                 \* loop index i of the caller
    an,                 \* len(self._threads) as the caller's loop read it
    atask,              \* the arguments of the call the caller is in
    retry_tasks_old,    \* local of stop
    kill_abruptly,      \* argument of stop
    pending,            \* history: the tasks in the queue when the stop under way began
                        \* ({} when no stop is under way, or where it is not noted)
    registeredHosts,    \* MessageEntity._registeredHosts of the client (the addresses)
    dangling,           \* Client._dangling, in insertion order
    inputQueue,         \* the client's input queue: (address, message) pairs
    lpc                 \* position of the client's listener thread

poolVars == <<initialized, terminating, threads, queue, queueSem>>
cfgVars == <<skip_expired, retry_on_error, root>>
sessVars == <<session_start, session_start_abs, correction_factor>>
apiVars == <<apc, ai, an, atask, retry_tasks_old, kill_abruptly, pending>>
cliVars == <<registeredHosts, dangling, inputQueue, lpc>>
vars == <<now, poolVars, cfgVars, retry_tasks, sessVars, thr, task, events, apiVars,
          cliVars>>

\* ------------------------------------------------------ ThreadWrapper
\* ThreadWrapper.__init__ plus the locals of _execute_task at rest
NewThread(lv) ==
    [pc |-> "acquire", hasToFinish |-> FALSE, process |-> "None", returncode |-> 0,
     p |-> "None", task |-> 0, time_to_task |-> 0, wake |-> 0,
     task_start_time |-> 0, task_end_time |-> 0, task_restart_time |-> 0,
     task_timeout |-> 0, wait_deadline |-> 0, rcode |-> 0,
     born |-> 0, live |-> lv]

\* no ThreadWrapper was ever constructed in the slot
NoThread == [NewThread(0) EXCEPT !.pc = "dead"]

\* the locals of _execute_task once it has returned
Rest(w) ==
    [w EXCEPT !.p = "None", !.task = 0, !.time_to_task = 0, !.wake = 0,
              !.task_start_time = 0, !.task_end_time = 0, !.task_restart_time = 0,
              !.task_timeout = 0, !.wait_deadline = 0,
              !.rcode = 0]

\* Thread.isAlive()
IsAlive(w) == w.pc # "dead"

SUDO_ID == "sudo"

\* root or not any(arg == SUDO_ID for arg in args)
Allowed(rt, args) == rt \/ ~(\E k \in 1..Len(args) : args[k] = SUDO_ID)

\* a variant of start_process that does not look at the terminate flag
StartProcessUnflagged(w, rt, args, ok) ==
    IF Allowed(rt, args)
    THEN IF ok
         THEN [w EXCEPT !.process = "running", !.returncode = 0, !.p = "proc",
                        !.born = now, !.live = @ + 1]
         ELSE [w EXCEPT !.process = "None", !.p = "None"]
    ELSE [w EXCEPT !.p = "None"]

\* ThreadWrapper.start_process: ok is whether Popen succeeds (no OSError);
\* born is the time the child starts at, live counts the worker's running children
StartProcess(w, rt, args, ok) ==
    IF ~w.hasToFinish /\ Allowed(rt, args)
    THEN IF ok
         THEN [w EXCEPT !.process = "running", !.returncode = 0, !.p = "proc",
                        !.born = now, !.live = @ + 1]
         ELSE [w EXCEPT !.process = "None", !.p = "None"]
    ELSE [w EXCEPT !.p = "None"]

\* a variant of force_stop_process that leaves a running child alone
ForceStopProcessNoKill(w) == w

\* ThreadWrapper.force_stop_process
ForceStopProcess(w) ==
    IF w.process = "running"
    THEN [w EXCEPT !.process = "exited", !.returncode = SIGTERM_CODE, !.born = 0,
                   !.live = @ - 1]
    ELSE w

\* ThreadWrapper.terminate
Terminate(w) == [w EXCEPT !.hasToFinish = TRUE]

\* ------------------------------------------------------------- Init
Init ==
    /\ now = 0
    /\ initialized = FALSE
    /\ terminating = FALSE
    /\ threads = <<>>
    /\ queue = <<>>
    /\ queueSem = 0
    /\ skip_expired \in BOOLEAN
    /\ retry_tasks \in BOOLEAN
    /\ retry_on_error \in (IF retry_tasks THEN BOOLEAN ELSE {FALSE})
    /\ root = FALSE
    /\ session_start = 0
    /\ session_start_abs = 0
    /\ correction_factor = 0
    /\ thr = [i \in Workers |-> NoThread]
    /\ task = <<>>
    /\ events = <<>>
    /\ apc = [c \in Callers |-> "idle"]
    /\ ai = [c \in Callers |-> 0]
    /\ an = [c \in Callers |-> 0]
    /\ atask = [c \in Callers |-> <<>>]
    /\ retry_tasks_old = FALSE
    /\ kill_abruptly = FALSE
    /\ pending = {}
    /\ registeredHosts = {}
    /\ dangling = <<>>
    /\ inputQueue = <<>>
    /\ lpc = "init"

\* ------------------------------------------------------------ clock
\* time passes; the horizon is MaxTime, and a worker about to wait on the sleep
\* condition begins its wait early enough for its timeout to lie within the horizon
Tick ==
    /\ now < MaxTime
    /\ \A i \in Workers :
          thr[i].pc = "prewait" => now + 1 + thr[i].time_to_task <= MaxTime
    /\ now' = now + 1
    /\ UNCHANGED <<poolVars, cfgVars, cliVars, retry_tasks, sessVars, thr, task, events, apiVars>>

\* -------------------------------------------------------- messages
\* MessageBuilder.status_start / status_restart / status_end / status_error:
\* the kind of the message and the code it carries (<<>> is None)
StatusStart == [kind |-> "start", code |-> <<>>]
StatusRestart(error) == [kind |-> "restart", code |-> error]
StatusEnd == [kind |-> "end", code |-> <<>>]
StatusError(rcode) == [kind |-> "error", code |-> <<rcode>>]

\* lines 481, 494 and 509: task.timestamp = timestamp; the message that is built
\* next carries the timestamp of the task
Stamp(id, timestamp) == [task EXCEPT ![id].timestamp = timestamp]

\* MessageEntity.broadcast_msg
Broadcast(id, msg) == [events EXCEPT ![id] = Append(@, msg)]

\* a variant in which the start message is not broadcast
InformStartSilent(id) == events

\* InjectionThreadPool._inform_start
InformStart(id) == Broadcast(id, StatusStart)

\* a variant that carries the return code in the restart message even when it is 0
InformRestartCode(id, rcode) == Broadcast(id, StatusRestart(<<rcode>>))

\* InjectionThreadPool._inform_restart
InformRestart(id, rcode) ==
    Broadcast(id, StatusRestart(IF rcode = 0 THEN <<>> ELSE <<rcode>>))

\* a variant that broadcasts whether or not the worker has to terminate
ProcessResultUnchecked(w, id, rcode) ==
    Broadcast(id, IF rcode # 0 THEN StatusError(rcode) ELSE StatusEnd)

\* InjectionThreadPool._process_result, called by the worker w
ProcessResult(w, id, rcode) ==
    IF ~w.hasToFinish
    THEN Broadcast(id, IF rcode # 0 THEN StatusError(rcode) ELSE StatusEnd)
    ELSE events

\* ----------------------------------------------------- working loop
\* self._queueSem.acquire(); if current_thread().has_to_terminate(): break
\* (the acquire commutes to the right of every step of another thread, so the two
\* are one step)
WAcquire(i) ==
    /\ thr[i].pc = "acquire"
    /\ queueSem > 0
    /\ queueSem' = queueSem - 1
    /\ thr' = [thr EXCEPT ![i].pc = IF thr[i].hasToFinish THEN "dead" ELSE "pop"]
    /\ UNCHANGED <<now, initialized, terminating, threads, queue, cfgVars, cliVars,
                   retry_tasks, sessVars, task, events, apiVars>>

\* a variant that takes the element at the right end of the deque
PopRight(q) == <<q[Len(q)], SubSeq(q, 1, Len(q) - 1)>>

\* deque.popleft(): the element taken and the deque that remains
Popleft(q) == <<Head(q), Tail(q)>>

\* task = self._queue.popleft() if len(self._queue) > 0 else None
WPop(i) ==
    /\ thr[i].pc = "pop"
    /\ IF Len(queue) > 0
       THEN /\ thr' = [thr EXCEPT ![i].pc = "delay", ![i].task = Popleft(queue)[1]]
            /\ queue' = Popleft(queue)[2]
       ELSE /\ thr' = [thr EXCEPT ![i].pc = "acquire"]
            /\ queue' = queue
    /\ UNCHANGED <<now, initialized, terminating, threads, queueSem, cfgVars, cliVars,
                   retry_tasks, sessVars, task, events, apiVars>>

\* --------------------------------------------------- _execute_task
\* time_to_task = task.timestamp - self._session_start - elapsed_time
TimeToTask(t) ==
    t.timestamp - session_start
        - (now - session_start_abs + correction_factor \div Second)

\* a variant in which a task that is exactly on time counts as expired
IsExpiredOrDue(time_to_task) == time_to_task <= 0 /\ skip_expired

\* elif time_to_task < 0 and self._skip_expired
IsExpired(time_to_task) == time_to_task < 0 /\ skip_expired

\* lines 388-400: the delay is computed; an expired task is skipped
WDelay(i) ==
    LET w == thr[i]
        ttt == TimeToTask(task[w.task])
    IN  /\ w.pc = "delay"
        /\ thr' = [thr EXCEPT ![i] =
              IF ttt > 0
              THEN [w EXCEPT !.pc = "prewait", !.time_to_task = ttt]
              ELSE IF IsExpired(ttt)
                   THEN [w EXCEPT !.pc = "skip", !.rcode = NOT_RUN_CODE]
                   ELSE [w EXCEPT !.pc = "spawn"]]
        /\ UNCHANGED <<now, poolVars, cfgVars, cliVars, retry_tasks, sessVars, task, events,
                       apiVars>>

\* self._sleepCondition.acquire(); self._sleepCondition.wait(time_to_task)
WSleep(i) ==
    /\ thr[i].pc = "prewait"
    /\ thr' = [thr EXCEPT ![i].pc = "sleep", ![i].wake = now + thr[i].time_to_task,
                          ![i].time_to_task = 0]
    /\ UNCHANGED <<now, poolVars, cfgVars, cliVars, retry_tasks, sessVars, task, events, apiVars>>

\* the wait on the sleep condition times out
WWake(i) ==
    /\ thr[i].pc = "sleep"
    /\ now >= thr[i].wake
    /\ thr' = [thr EXCEPT ![i].pc = "spawn", ![i].wake = 0]
    /\ UNCHANGED <<now, poolVars, cfgVars, cliVars, retry_tasks, sessVars, task, events, apiVars>>

\* A command line (task.args) is kept as the list of its words; a Python str, as
\* the arguments handed to Popen may be, is the sequence of its characters.
\* shlex.split: the words of the command line
Split(args) == args

\* the characters of a word
Chars(word) ==
    CASE word = "sudo" -> <<"s", "u", "d", "o">>
      [] word = "cmd" -> <<"c", "m", "d">>
      [] word = "run.sh" -> <<"r", "u", "n", ".", "s", "h">>
      [] OTHER -> <<word>>

\* ' '.join(words): one string
RECURSIVE Join(_)
Join(words) ==
    IF Len(words) = 0 THEN <<>>
    ELSE IF Len(words) = 1 THEN Chars(words[1])
    ELSE Chars(words[1]) \o <<" ">> \o Join(Tail(words))

\* is_shell_script: the command line is a path that ends in a shell-script suffix
IsShellScript(args) == Len(args) > 0 /\ args[Len(args)] = "run.sh"

\* format_task_args with the default numa_cores (None, None): no pinning wrapper
FormatTaskArgs(t) == Split(t.args)

\* lines 401-403: the arguments handed to start_process, with shell=is_script
TaskArguments(t) ==
    IF IsShellScript(t.args) THEN Join(FormatTaskArgs(t)) ELSE FormatTaskArgs(t)

\* lines 401-412: task_start_time = time(); p = current_thread().start_process(...)
WSpawn(i) ==
    LET w == thr[i] IN
    /\ w.pc = "spawn"
    /\ \E ok \in BOOLEAN :
          thr' = [thr EXCEPT ![i] =
              [StartProcess(w, root, TaskArguments(task[w.task]), ok) EXCEPT
                  !.pc = "spawned", !.task_start_time = now]]
    /\ UNCHANGED <<now, poolVars, cfgVars, cliVars, retry_tasks, sessVars, task, events, apiVars>>

\* the time at which a p.wait(timeout) that begins now raises TimeoutExpired
\* (0: task_timeout is None, the wait has no timeout)
WaitDeadline(duration, timeout) ==
    IF duration = VALUE_DUR_NO_LIM THEN 0 ELSE now + timeout

\* lines 413-430: no child, or the start event and the first wait
WSpawned(i) ==
    LET w == thr[i] IN
    /\ w.pc = "spawned"
    /\ IF w.p = "None"
       THEN /\ thr' = [thr EXCEPT ![i] =
                  IF ~w.hasToFinish
                  THEN [Rest(w) EXCEPT !.pc = "fail", !.task = w.task,
                                       !.task_end_time = w.task_start_time,
                                       !.rcode = NOT_RUN_CODE]
                  ELSE [Rest(w) EXCEPT !.pc = "acquire"]]
            /\ events' = events
            /\ task' = task
       ELSE /\ thr' = [thr EXCEPT ![i].pc = "wait", ![i].rcode = 0,
                                  ![i].wait_deadline =
                                      WaitDeadline(task[w.task].duration,
                                                   task[w.task].duration)]
            /\ events' = InformStart(w.task)
            /\ task' = Stamp(w.task, w.task_start_time)
    /\ UNCHANGED <<now, poolVars, cfgVars, cliVars, retry_tasks, sessVars, apiVars>>

\* a variant that gives every replacement the whole duration
RemainingReset(duration, end_time, start_time) == duration

\* task_timeout = task_duration - (task_end_time - task_start_time)
Remaining(duration, end_time, start_time) == duration - (end_time - start_time)

\* lines 443-447: whether the child that exited early is replaced
ShouldRestart(rcode, timeout) ==
    /\ retry_tasks
    /\ timeout > 0
    /\ ~(rcode # 0 /\ ~retry_on_error)

\* a variant in which the wait returns while the child still runs
WaitReturnsEarly(w) == w.process \in {"running", "exited"}

\* Popen.wait returns once the child has exited
WaitReturns(w) == w.process = "exited"

\* p.wait(timeout=task_timeout) returns: the child has exited (lines 430-456, and
\* p.communicate() of line 448 or 463); returncode is kept in the model only until
\* the worker has read it, nothing else reads its value
WWaitReturn(i) ==
    LET w == thr[i]
        t == task[w.task]
        left == Remaining(t.duration, now, w.task_start_time)
    IN  /\ w.pc = "wait"
        /\ WaitReturns(w)
        /\ thr' = [thr EXCEPT ![i] =
              IF t.duration # VALUE_DUR_NO_LIM /\ ShouldRestart(w.returncode, left)
              THEN [w EXCEPT !.pc = "restart", !.rcode = w.returncode,
                             !.returncode = 0, !.task_timeout = left,
                             !.wait_deadline = 0]
              ELSE [Rest(w) EXCEPT !.pc = "result", !.task = w.task,
                                   !.task_end_time = now,
                                   !.rcode = w.returncode, !.returncode = 0]]
        /\ UNCHANGED <<now, poolVars, cfgVars, cliVars, retry_tasks, sessVars, task, events,
                       apiVars>>

\* p.wait(timeout=task_timeout) raises TimeoutExpired
WTimeout(i) ==
    LET w == thr[i] IN
    /\ w.pc = "wait"
    /\ task[w.task].duration # VALUE_DUR_NO_LIM
    /\ w.process = "running"
    /\ now >= w.wait_deadline
    /\ thr' = [thr EXCEPT ![i].pc = "timeout", ![i].wait_deadline = 0,
                          ![i].task_start_time = 0]
    /\ UNCHANGED <<now, poolVars, cfgVars, cliVars, retry_tasks, sessVars, task, events, apiVars>>

\* a variant that reports the return code of the child that was killed
DeadlineReachedCode(w) ==
    [ForceStopProcess(w) EXCEPT !.pc = "result", !.rcode = ForceStopProcess(w).returncode,
                                !.returncode = 0, !.p = "None"]

\* lines 458-463, the handler of TimeoutExpired: the child is killed, rcode = 0
DeadlineReached(w) ==
    [ForceStopProcess(w) EXCEPT !.pc = "result", !.rcode = 0, !.returncode = 0,
                                !.p = "None"]

WKill(i) ==
    LET w == thr[i] IN
    /\ w.pc = "timeout"
    /\ thr' = [thr EXCEPT ![i] = [DeadlineReached(w) EXCEPT !.task_end_time = now]]
    /\ UNCHANGED <<now, poolVars, cfgVars, cliVars, retry_tasks, sessVars, task, events, apiVars>>

\* lines 448-452: the replacement child is spawned
WRestart(i) ==
    LET w == thr[i] IN
    /\ w.pc = "restart"
    /\ \E ok \in BOOLEAN :
          thr' = [thr EXCEPT ![i] =
              [StartProcess(w, root, TaskArguments(task[w.task]), ok) EXCEPT
                  !.pc = "restarted", !.task_restart_time = now]]
    /\ UNCHANGED <<now, poolVars, cfgVars, cliVars, retry_tasks, sessVars, task, events, apiVars>>

\* lines 453-454 and 435-436: the restart event, then p.wait on the replacement;
\* with p = None the call p.wait raises AttributeError and the thread ends
WRestarted(i) ==
    LET w == thr[i] IN
    /\ w.pc = "restarted"
    /\ events' = InformRestart(w.task, w.rcode)
    /\ task' = Stamp(w.task, w.task_restart_time)
    /\ thr' = [thr EXCEPT ![i] =
          IF w.p = "None"
          THEN [Rest(w) EXCEPT !.pc = "dead"]
          ELSE [w EXCEPT !.pc = "wait",
                         !.wait_deadline =
                             WaitDeadline(task[w.task].duration, w.task_timeout),
                         !.task_timeout = 0, !.task_restart_time = 0, !.rcode = 0]]
    /\ UNCHANGED <<now, poolVars, cfgVars, cliVars, retry_tasks, sessVars, apiVars>>

\* the calls of _process_result: line 399 ("skip"), line 417 ("fail") and line 467
\* ("result"); then _execute_task returns to the working loop
WResult(i) ==
    LET w == thr[i] IN
    /\ w.pc \in {"skip", "fail", "result"}
    /\ events' = ProcessResult(w, w.task, w.rcode)
    /\ task' = Stamp(w.task, IF w.pc = "skip" THEN now ELSE w.task_end_time)
    /\ thr' = [thr EXCEPT ![i] = [Rest(w) EXCEPT !.pc = "acquire"]]
    /\ UNCHANGED <<now, poolVars, cfgVars, cliVars, retry_tasks, sessVars, apiVars>>

\* the child of worker i exits by itself with code c, after running for some time
ChildExit(i, c) ==
    /\ thr[i].process = "running"
    /\ now > thr[i].born
    /\ thr' = [thr EXCEPT ![i].process = "exited", ![i].returncode = c,
                          ![i].born = 0, ![i].live = @ - 1]
    /\ UNCHANGED <<now, poolVars, cfgVars, cliVars, retry_tasks, sessVars, task, events, apiVars>>

Worker(i) ==
    \/ WAcquire(i) \/ WPop(i) \/ WDelay(i) \/ WSleep(i) \/ WWake(i)
    \/ WSpawn(i) \/ WSpawned(i) \/ WWaitReturn(i) \/ WTimeout(i) \/ WKill(i)
    \/ WRestart(i) \/ WRestarted(i) \/ WResult(i)

\* ------------------------------------------------- ThreadPool.start
\* the slots of thr hold the threads of one session: a start is taken once the
\* threads of the session before have ended
Start(c) ==
    /\ apc[c] = "idle"
    /\ \A i \in Workers : ~IsAlive(thr[i]) \/ initialized
    /\ IF ~initialized
       THEN /\ queue' = <<>>
            /\ threads' = [i \in Workers |-> "thread"]
            /\ thr' = [i \in Workers |-> NewThread(thr[i].live)]
            /\ initialized' = TRUE
            /\ terminating' = FALSE
       ELSE UNCHANGED <<queue, threads, thr, initialized, terminating>>
    /\ UNCHANGED <<now, queueSem, cfgVars, cliVars, retry_tasks, sessVars, task, events, apiVars>>

\* ------------------------------------------ InjectionThreadPool.stop
\* lines 355-359 from self._threads[i].terminate() on: the flag of thread i is set;
\* after the last one the semaphore is released once per thread (a release commutes
\* to the left of every step of another thread, so the releases are part of the step)
FlagFrom(c, i, n) ==
    /\ thr' = [thr EXCEPT ![i] = Terminate(@)]
    /\ an' = [an EXCEPT ![c] = n]
    /\ IF i >= n
       THEN /\ queueSem' = queueSem + n
            /\ apc' = [apc EXCEPT ![c] = "stop_notify"]
            /\ ai' = [ai EXCEPT ![c] = 1]
       ELSE /\ queueSem' = queueSem
            /\ apc' = [apc EXCEPT ![c] = "stop_flag"]
            /\ ai' = [ai EXCEPT ![c] = i + 1]

\* lines 352-356: the call begins; the first thread is flagged
StopBeginCall(c, kill) ==
    /\ apc[c] = "idle"
    /\ IF initialized /\ Len(threads) > 0
       THEN /\ retry_tasks_old' = retry_tasks
            /\ kill_abruptly' = kill
            /\ FlagFrom(c, 1, Len(threads))
       ELSE UNCHANGED <<retry_tasks_old, kill_abruptly, apc, ai, an, thr, queueSem>>
    /\ UNCHANGED <<now, initialized, terminating, threads, queue, cfgVars, cliVars, retry_tasks,
                   sessVars, task, events, atask>>

StopBegin(c, kill) == StopBeginCall(c, kill) /\ pending' = pending

\* the same step, with the tasks that are in the queue noted in the history
StopBeginNoted(c, kill) ==
    /\ StopBeginCall(c, kill)
    /\ pending' = IF initialized /\ Len(threads) > 0
                  THEN {queue[k] : k \in 1..Len(queue)}
                  ELSE pending

\* lines 355-359: the next thread is flagged
StopFlag(c) ==
    /\ apc[c] = "stop_flag"
    /\ FlagFrom(c, ai[c], an[c])
    /\ UNCHANGED <<now, initialized, terminating, threads, queue, cfgVars, cliVars, retry_tasks,
                   sessVars, task, events, atask, retry_tasks_old, kill_abruptly,
                   pending>>

\* Condition.notify_all: every thread waiting on the condition is woken
NotifyAll(ws) ==
    [i \in Workers |-> IF ws[i].pc = "sleep"
                    THEN [ws[i] EXCEPT !.pc = "spawn", !.wake = 0]
                    ELSE ws[i]]

\* lines 362-366
StopNotify(c) ==
    /\ apc[c] = "stop_notify"
    /\ thr' = NotifyAll(thr)
    /\ apc' = [apc EXCEPT ![c] = IF kill_abruptly THEN "stop_retry" ELSE "stop_join"]
    /\ UNCHANGED <<now, poolVars, cfgVars, cliVars, retry_tasks, sessVars, task, events, ai, an,
                   atask, retry_tasks_old, kill_abruptly, pending>>

\* line 367: self._retry_tasks = False
StopRetry(c) ==
    /\ apc[c] = "stop_retry"
    /\ retry_tasks' = FALSE
    /\ apc' = [apc EXCEPT ![c] = "stop_kill"]
    /\ UNCHANGED <<now, poolVars, cfgVars, cliVars, sessVars, thr, task, events, ai, an, atask,
                   retry_tasks_old, kill_abruptly, pending>>

\* lines 368-369: t.force_stop_process()
StopKill(c) ==
    /\ apc[c] = "stop_kill"
    /\ thr' = [thr EXCEPT ![ai[c]] = ForceStopProcess(@)]
    /\ IF ai[c] >= an[c]
       THEN /\ apc' = [apc EXCEPT ![c] = "stop_join"]
            /\ ai' = [ai EXCEPT ![c] = 1]
       ELSE /\ apc' = apc
            /\ ai' = [ai EXCEPT ![c] = @ + 1]
    /\ UNCHANGED <<now, poolVars, cfgVars, cliVars, retry_tasks, sessVars, task, events, an,
                   atask, retry_tasks_old, kill_abruptly, pending>>

\* lines 370-378: every thread is joined (a join waits for a thread to have ended,
\* and an ended thread stays so), then the pool is marked as stopped
StopJoin(c) ==
    /\ apc[c] = "stop_join"
    /\ \A i \in 1..an[c] : ~IsAlive(thr[i])
    /\ initialized' = FALSE
    /\ threads' = <<>>
    /\ session_start' = 0
    /\ session_start_abs' = 0
    /\ retry_tasks' = retry_tasks_old
    /\ apc' = [apc EXCEPT ![c] = "idle"]
    /\ ai' = [ai EXCEPT ![c] = 0]
    /\ an' = [an EXCEPT ![c] = 0]
    /\ retry_tasks_old' = FALSE
    /\ kill_abruptly' = FALSE
    /\ pending' = {}
    /\ UNCHANGED <<now, terminating, queue, queueSem, cfgVars, cliVars, correction_factor, thr,
                   task, events, atask>>

Stop(c) ==
    \/ \E kill \in BOOLEAN : StopBegin(c, kill)
    \/ StopFlag(c) \/ StopNotify(c) \/ StopRetry(c) \/ StopKill(c) \/ StopJoin(c)

\* ------------------------------------------- ThreadPool.submit_task
TaskArgs == {<<"cmd">>}
Tasks == [timestamp : Timestamps, duration : Durations, args : TaskArgs]

\* submit_task calls that have a task in hand
Submitting == {c \in Callers : apc[c] = "sub_append"}

\* a variant of the sweep that replaces no thread
CheckThreadsKeep(ws) == ws

\* _check_threads, lines 237-242: every thread that has ended is replaced
CheckThreads(ws) ==
    [i \in Workers |-> IF i <= Len(threads) /\ ~IsAlive(ws[i])
                    THEN NewThread(ws[i].live)
                    ELSE ws[i]]

\* a variant of the test of line 208 that looks at the terminating flag only
RejectsTerminating == terminating

\* line 208: if self._terminating or not self._initialized
Rejects == terminating \/ ~initialized

\* lines 208-212: the call is rejected, or the liveness sweep runs
SubmitTask(c, t) ==
    /\ apc[c] = "idle"
    /\ IF Rejects
       THEN UNCHANGED <<apc, atask, thr>>
       ELSE /\ apc' = [apc EXCEPT ![c] = "sub_append"]
            /\ atask' = [atask EXCEPT ![c] = t]
            /\ thr' = CheckThreads(thr)
    /\ UNCHANGED <<now, poolVars, cfgVars, cliVars, retry_tasks, sessVars, task, events, ai,
                   an, retry_tasks_old, kill_abruptly, pending>>

\* lines 213-215: self._queue.append(task)
Enqueue(c) ==
    /\ apc[c] = "sub_append"
    /\ task' = Append(task, atask[c])
    /\ events' = Append(events, <<>>)
    /\ queue' = Append(queue, Len(task) + 1)
    /\ apc' = [apc EXCEPT ![c] = "sub_release"]
    /\ atask' = [atask EXCEPT ![c] = <<>>]
    /\ UNCHANGED <<now, initialized, terminating, threads, queueSem, cfgVars, cliVars,
                   retry_tasks, sessVars, thr, ai, an, retry_tasks_old, kill_abruptly,
                   pending>>

\* line 216: self._queueSem.release()
Release(c) ==
    /\ apc[c] = "sub_release"
    /\ queueSem' = queueSem + 1
    /\ apc' = [apc EXCEPT ![c] = "idle"]
    /\ UNCHANGED <<now, initialized, terminating, threads, queue, cfgVars, cliVars, retry_tasks,
                   sessVars, thr, task, events, ai, an, atask, retry_tasks_old,
                   kill_abruptly, pending>>

\* at most n tasks have been handed to submit_task so far
Fewer(n) == Len(task) + Cardinality(Submitting) < n

Submit(c) ==
    \/ Fewer(MaxTasks) /\ \E t \in Tasks : SubmitTask(c, t)
    \/ Enqueue(c) \/ Release(c)

\* -------------------------------- the calls, statement by statement
\* When submit_task runs in a thread of its own, next to the thread that calls start
\* and stop, the statements of stop's join loop and of _check_threads interleave.

\* line 371: self._threads[i].join() returns once the thread in the slot has ended
StopJoinThread(c) ==
    /\ apc[c] = "stop_join"
    /\ ~IsAlive(thr[ai[c]])
    /\ apc' = [apc EXCEPT ![c] = "stop_none"]
    /\ UNCHANGED <<now, poolVars, cfgVars, cliVars, retry_tasks, sessVars, thr, task, events,
                   ai, an, atask, retry_tasks_old, kill_abruptly, pending>>

\* line 372: self._threads[i] = None; a thread put in the slot since the join is
\* left running, referenced by nothing
StopNone(c) ==
    /\ apc[c] = "stop_none"
    /\ threads' = [threads EXCEPT ![ai[c]] = "None"]
    /\ IF ai[c] >= an[c]
       THEN /\ apc' = [apc EXCEPT ![c] = "stop_end"]
            /\ ai' = [ai EXCEPT ![c] = 0]
       ELSE /\ apc' = [apc EXCEPT ![c] = "stop_join"]
            /\ ai' = [ai EXCEPT ![c] = @ + 1]
    /\ UNCHANGED <<now, initialized, terminating, queue, queueSem, cfgVars, cliVars, retry_tasks,
                   sessVars, thr, task, events, an, atask, retry_tasks_old,
                   kill_abruptly, pending>>

\* lines 373-378
StopEnd(c) ==
    /\ apc[c] = "stop_end"
    /\ initialized' = FALSE
    /\ threads' = <<>>
    /\ session_start' = 0
    /\ session_start_abs' = 0
    /\ retry_tasks' = retry_tasks_old
    /\ apc' = [apc EXCEPT ![c] = "idle"]
    /\ an' = [an EXCEPT ![c] = 0]
    /\ retry_tasks_old' = FALSE
    /\ kill_abruptly' = FALSE
    /\ pending' = {}
    /\ UNCHANGED <<now, terminating, queue, queueSem, cfgVars, cliVars, correction_factor, thr,
                   task, events, ai, atask>>

StopStatements(c) ==
    \/ StopBegin(c, TRUE)
    \/ StopFlag(c) \/ StopNotify(c) \/ StopRetry(c) \/ StopKill(c)
    \/ StopJoinThread(c) \/ StopNone(c) \/ StopEnd(c)

\* lines 208-210: the test of submit_task
SubmitTest(c, t) ==
    /\ apc[c] = "idle"
    /\ Len(task) + Cardinality(Submitting) < MaxTasks
    /\ IF Rejects
       THEN UNCHANGED <<apc, atask>>
       ELSE /\ apc' = [apc EXCEPT ![c] = "sub_sweep"]
            /\ atask' = [atask EXCEPT ![c] = t]
    /\ UNCHANGED <<now, poolVars, cfgVars, cliVars, retry_tasks, sessVars, thr, task, events, ai,
                   an, retry_tasks_old, kill_abruptly, pending>>

\* lines 235-237: the test of _check_threads and range(len(self._threads))
SweepTest(c) ==
    /\ apc[c] = "sub_sweep"
    /\ IF terminating \/ ~initialized \/ Len(threads) = 0
       THEN UNCHANGED <<ai, an>> /\ apc' = [apc EXCEPT ![c] = "sub_append"]
       ELSE /\ apc' = [apc EXCEPT ![c] = "sub_thread"]
            /\ ai' = [ai EXCEPT ![c] = 1]
            /\ an' = [an EXCEPT ![c] = Len(threads)]
    /\ UNCHANGED <<now, poolVars, cfgVars, cliVars, retry_tasks, sessVars, thr, task, events,
                   atask, retry_tasks_old, kill_abruptly, pending>>

\* lines 238-242 for one i: a slot that stop has emptied or cleared makes
\* self._threads[i].isAlive() raise, and the call ends with the exception
SweepThread(c) ==
    LET i == ai[c] IN
    /\ apc[c] = "sub_thread"
    /\ IF i > Len(threads) \/ threads[i] = "None"
       THEN /\ apc' = [apc EXCEPT ![c] = "idle"]
            /\ ai' = [ai EXCEPT ![c] = 0]
            /\ an' = [an EXCEPT ![c] = 0]
            /\ atask' = [atask EXCEPT ![c] = <<>>]
            /\ thr' = thr
       ELSE /\ thr' = [thr EXCEPT ![i] = IF IsAlive(@) THEN @ ELSE NewThread(@.live)]
            /\ atask' = atask
            /\ IF i >= an[c]
               THEN /\ apc' = [apc EXCEPT ![c] = "sub_append"]
                    /\ ai' = [ai EXCEPT ![c] = 0]
                    /\ an' = [an EXCEPT ![c] = 0]
               ELSE /\ apc' = apc
                    /\ ai' = [ai EXCEPT ![c] = i + 1]
                    /\ an' = an
    /\ UNCHANGED <<now, poolVars, cfgVars, cliVars, retry_tasks, sessVars, task, events,
                   retry_tasks_old, kill_abruptly, pending>>

\* the statements of a call of submit_task that has passed its test
SubmitAccepted(c) == SweepTest(c) \/ SweepThread(c) \/ Enqueue(c) \/ Release(c)

SubmitStatements(c) ==
    \/ \E t \in Tasks : SubmitTest(c, t)
    \/ SubmitAccepted(c)

\* ---------------------------------------------------- specifications
\* one controller thread calls start, stop and submit_task, one call at a time
Next ==
    \/ Tick
    \/ \E i \in Workers : Worker(i)
    \/ \E i \in Workers, c \in ExitCodes : ChildExit(i, c)
    \/ Start("ctl")
    \/ Stop("ctl")
    \/ Submit("ctl")

Spec == Init /\ [][Next]_vars

\* one thread calls start and stop while another one calls submit_task; every
\* thread that can take a step eventually takes one, a call that has begun goes on,
\* and time passes
NextConc ==
    \/ Tick
    \/ \E i \in Workers : Worker(i)
    \/ \E i \in Workers, c \in ExitCodes : ChildExit(i, c)
    \/ Start("ctl")
    \/ StopStatements("ctl")
    \/ SubmitStatements("sub")

InitConc == Init /\ ~skip_expired /\ retry_tasks /\ retry_on_error

SpecConc ==
    /\ InitConc
    /\ [][NextConc]_vars
    /\ WF_vars(Tick)
    /\ \A i \in Workers : WF_vars(Worker(i))
    /\ WF_vars(StopStatements("ctl"))
    /\ WF_vars(SubmitAccepted("sub"))

TypeOK ==
    /\ now \in 0..MaxTime
    /\ queueSem \in Nat
    /\ Len(task) = Len(events)
    /\ \A i \in Workers : thr[i].task \in 0..Len(task)

\* ------------------------------------ reset_session and correct_time
\* InjectionThreadPool.CORRECTION_THRESHOLD, in seconds
CORRECTION_THRESHOLD == 60

\* the (timestamp, abs_timestamp) pairs passed to reset_session
Sessions == {<<1, 2>>}

\* offsets, in seconds, of the controller's workload clock from the local one
Offsets == {-100, -CORRECTION_THRESHOLD, 0, CORRECTION_THRESHOLD, 100}

\* line 325: self._session_start = timestamp
ResetSessionRel(c, s) ==
    /\ apc[c] = "idle"
    /\ session_start' = s[1]
    /\ apc' = [apc EXCEPT ![c] = "reset_abs"]
    /\ atask' = [atask EXCEPT ![c] = s]
    /\ UNCHANGED <<now, poolVars, cfgVars, cliVars, retry_tasks, session_start_abs,
                   correction_factor, thr, task, events, ai, an, retry_tasks_old,
                   kill_abruptly, pending>>

\* line 326: self._session_start_abs = abs_timestamp
ResetSessionAbs(c) ==
    /\ apc[c] = "reset_abs"
    /\ session_start_abs' = atask[c][2]
    /\ apc' = [apc EXCEPT ![c] = "idle"]
    /\ atask' = [atask EXCEPT ![c] = <<>>]
    /\ UNCHANGED <<now, poolVars, cfgVars, cliVars, retry_tasks, session_start,
                   correction_factor, thr, task, events, ai, an, retry_tasks_old,
                   kill_abruptly, pending>>

ResetSession(c) ==
    \/ \E s \in Sessions : ResetSessionRel(c, s)
    \/ ResetSessionAbs(c)

\* line 339: my_timestamp = time() - self._session_start_abs + self._session_start
MyTimestamp == now - session_start_abs + session_start

\* line 340: diff = timestamp - my_timestamp - self._correction_factor
Diff(timestamp) == (timestamp - MyTimestamp) * Second - correction_factor

Abs(x) == IF x < 0 THEN -x ELSE x

\* a variant of the test of line 341 that a drift equal to the threshold passes
NeedsCorrectionAt(diff) ==
    Abs(diff) >= CORRECTION_THRESHOLD * Second /\ session_start_abs > 0

\* line 341: abs(diff) > CORRECTION_THRESHOLD and self._session_start_abs > 0
NeedsCorrection(diff) ==
    Abs(diff) > CORRECTION_THRESHOLD * Second /\ session_start_abs > 0

\* a variant of the smoothing step with gain 0.2
Fifth(diff) == diff \div 5

\* line 343: 0.1 * diff
Tenth(diff) == diff \div 10

\* correct_time is called with a timestamp for which 0.1 * diff is exact
CorrectTimeCall(c, timestamp) ==
    /\ apc[c] = "idle"
    /\ Diff(timestamp) % 10 = 0
    /\ apc' = [apc EXCEPT ![c] = "correct_time"]
    /\ atask' = [atask EXCEPT ![c] = <<timestamp>>]
    /\ UNCHANGED <<now, poolVars, cfgVars, cliVars, retry_tasks, sessVars, thr, task, events,
                   ai, an, retry_tasks_old, kill_abruptly, pending>>

\* lines 339-343
CorrectTimeBody(c) ==
    LET diff == Diff(atask[c][1]) IN
    /\ apc[c] = "correct_time"
    /\ correction_factor' = IF NeedsCorrection(diff)
                            THEN correction_factor + Tenth(diff)
                            ELSE correction_factor
    /\ apc' = [apc EXCEPT ![c] = "idle"]
    /\ atask' = [atask EXCEPT ![c] = <<>>]
    /\ UNCHANGED <<now, poolVars, cfgVars, cliVars, retry_tasks, session_start,
                   session_start_abs, thr, task, events, ai, an, retry_tasks_old,
                   kill_abruptly, pending>>

CorrectTime(c) ==
    \/ \E d \in Offsets : CorrectTimeCall(c, MyTimestamp + d)
    \/ CorrectTimeBody(c)

\* the controller resets the session and reports its clock while time passes; the
\* flags are the defaults of the constructor
NextClock ==
    \/ Tick
    \/ ResetSession("ctl")
    \/ CorrectTime("ctl")

InitClock == Init /\ skip_expired /\ retry_tasks /\ ~retry_on_error

SpecClock == InitClock /\ [][NextClock]_vars

\* the controller resets the session while the pool runs tasks
NextSession ==
    \/ Tick
    \/ \E i \in Workers : Worker(i)
    \/ \E i \in Workers, c \in ExitCodes : ChildExit(i, c)
    \/ Start("ctl")
    \/ Stop("ctl")
    \/ Submit("ctl")
    \/ ResetSession("ctl")

SpecSession == InitClock /\ [][NextSession]_vars

\* the controller sets the session before it starts the pool, and then reports
\* a clock that is 100 s behind the local one while the pool runs tasks that are
\* never skipped; the reports are those whose correction is a whole number of
\* seconds
Behind == -100

CorrectTimeBehind(c) ==
    \/ /\ Diff(MyTimestamp + Behind) % (10 * Second) = 0
       /\ CorrectTimeCall(c, MyTimestamp + Behind)
    \/ CorrectTimeBody(c)

NextDrift ==
    \/ Tick
    \/ \E i \in Workers : Worker(i)
    \/ \E i \in Workers, c \in ExitCodes : ChildExit(i, c)
    \/ Start("ctl")
    \/ Submit("ctl")
    \/ ~initialized /\ ResetSession("ctl")
    \/ CorrectTimeBehind("ctl")

InitDrift == Init /\ ~skip_expired /\ retry_tasks /\ ~retry_on_error

SpecDrift == InitDrift /\ [][NextDrift]_vars

\* the controller submits command lines with and without the sudo word, as
\* commands and as shell scripts, to a pool that does not allow superuser rights
ArgLines == {<<"cmd">>, <<"sudo", "cmd">>, <<"run.sh">>, <<"sudo", "run.sh">>}
ArgTasks == [timestamp : Timestamps, duration : Durations, args : ArgLines]

NextArgs ==
    \/ Tick
    \/ \E i \in Workers : Worker(i)
    \/ \E i \in Workers, c \in ExitCodes : ChildExit(i, c)
    \/ Start("ctl")
    \/ Fewer(MaxTasks) /\ \E t \in ArgTasks : SubmitTask("ctl", t)
    \/ Enqueue("ctl") \/ Release("ctl")

SpecArgs == InitClock /\ [][NextArgs]_vars

\* the sequential controller of Spec, with the queue noted when a stop begins; the
\* flags are the defaults of the constructor
NextPending ==
    \/ Tick
    \/ \E i \in Workers : Worker(i)
    \/ \E i \in Workers, c \in ExitCodes : ChildExit(i, c)
    \/ Start("ctl")
    \/ \E kill \in BOOLEAN : StopBeginNoted("ctl", kill)
    \/ StopFlag("ctl") \/ StopNotify("ctl") \/ StopRetry("ctl") \/ StopKill("ctl")
    \/ StopJoin("ctl")
    \/ Submit("ctl")

SpecPending == InitClock /\ [][NextPending]_vars

\* a running pool (no stop) that is given one task more than it has workers, each
\* with a duration; every thread that can take a step eventually takes one, a call
\* that has begun goes on, and time passes
LimitedTasks == [timestamp : Timestamps, duration : {MaxDur}, args : TaskArgs]

NextBusy ==
    \/ Tick
    \/ \E i \in Workers : Worker(i)
    \/ \E i \in Workers, c \in ExitCodes : ChildExit(i, c)
    \/ Start("ctl")
    \/ Fewer(MaxRequests + 1) /\ \E t \in LimitedTasks : SubmitTask("ctl", t)
    \/ Enqueue("ctl") \/ Release("ctl")

SpecBusy ==
    /\ InitClock
    /\ [][NextBusy]_vars
    /\ WF_vars(Tick)
    /\ \A i \in Workers : WF_vars(Worker(i))
    /\ WF_vars(Enqueue("ctl") \/ Release("ctl"))

\* ------------------------------------------------------------ client
\* network/client.py. The base class MessageEntity is not part of the listing:
\* _registeredHosts is taken as the set of connected addresses, the input queue as
\* a list that _add_to_input_queue appends to, and _trim_dead_sockets as leaving
\* connected hosts alone. re_send_msgs keeps its default (False).
Hosts == {"A", "B"}
\* lines 17-19
CONNECTION_FINALIZED_MSG == -1
CONNECTION_LOST_MSG == 0
CONNECTION_RESTORED_MSG == 1
\* line 39, in ticks: retry_period < retry_interval as in the defaults (30, 600)
RETRY_PERIOD == 1
RETRY_INTERVAL == 2
\* connections lost in a run
MaxLost == 3
\* what socket.connect of lines 169-170 does: it returns, it raises an error that
\* line 179 catches (ConnectionRefusedError, TimeoutError ...), or it raises another
\* OSError (no route to host, network unreachable, socket.gaierror of
\* gethostbyname), which line 179 does not catch
Outcomes == {"connected", "refused", "unreachable"}

\* the client's fields as one value
ClientState ==
    [registeredHosts |-> registeredHosts, dangling |-> dangling, inputQueue |-> inputQueue]
Addrs(d) == {d[k].addr : k \in 1..Len(d)}
\* the sequences that list the elements of S once each
Orders(S) == {o \in [1..Cardinality(S) -> S] : \A h \in S : \E k \in DOMAIN o : o[k] = h}

\* Client._remove_host(address, now=False), lines 141-148; time_list[1] is the
\* time of the last attempt (time_list[0] of the code), time_list[2] the time noted
\* for the loss (time_list[1] of the code)
RemoveHost(cl, address) ==
    LET first_time == now - RETRY_PERIOD
    IN  [registeredHosts |-> cl.registeredHosts \ {address},
         inputQueue |-> Append(cl.inputQueue, <<address, CONNECTION_LOST_MSG>>),
         dangling |-> IF address \notin Addrs(cl.dangling)
                      THEN Append(cl.dangling,
                                  [addr |-> address,
                                   time_list |-> <<first_time, first_time>>])
                      ELSE cl.dangling]

\* lines 94-101: the hosts select reports are removed one after the other
RECURSIVE RemoveHosts(_, _)
RemoveHosts(cl, socks) ==
    IF socks = <<>> THEN cl
    ELSE RemoveHosts(RemoveHost(cl, Head(socks)), Tail(socks))

\* Client._restore_dangling_connections, the loop of lines 160-180 from the k-th
\* item on, then lines 182-184; connect[addr] is what the attempt for addr does
RECURSIVE RestoreLoop(_, _, _, _)
RestoreLoop(cl, k, to_pop, connect) ==
    IF k > Len(cl.dangling)
    THEN \* lines 182-184
         [cl EXCEPT !.dangling = SelectSeq(cl.dangling, LAMBDA d : d.addr \notin to_pop)]
    ELSE LET addr == cl.dangling[k].addr
             time_list == cl.dangling[k].time_list
         IN  IF now - time_list[2] > RETRY_INTERVAL
             THEN \* lines 162-164
                  RestoreLoop([cl EXCEPT !.inputQueue =
                                   Append(@, <<addr, CONNECTION_FINALIZED_MSG>>)],
                              k + 1, to_pop \cup {addr}, connect)
             ELSE IF now - time_list[1] >= RETRY_PERIOD
             THEN \* line 167
                  LET tried == [cl EXCEPT !.dangling[k].time_list[1] = now]
                  IN  CASE connect[addr] = "connected" ->
                             \* lines 171-177
                             RestoreLoop([tried EXCEPT
                                             !.registeredHosts = @ \cup {addr},
                                             !.inputQueue =
                                                 Append(@, <<addr, CONNECTION_RESTORED_MSG>>)],
                                         k + 1, to_pop \cup {addr}, connect)
                        [] connect[addr] = "refused" ->
                             \* lines 179-180
                             RestoreLoop(tried, k + 1, to_pop, connect)
                        [] connect[addr] = "unreachable" ->
                             \* the OSError leaves the method before lines 182-184 and
                             \* is caught in _listen, line 110
                             tried
             ELSE RestoreLoop(cl, k + 1, to_pop, connect)

RestoreDanglingConnectionsOf(cl, connect) ==
    IF Len(cl.dangling) > 0 THEN RestoreLoop(cl, 1, {}, connect) ELSE cl

SetClient(cl) ==
    /\ registeredHosts' = cl.registeredHosts
    /\ dangling' = cl.dangling
    /\ inputQueue' = cl.inputQueue

\* Client.add_servers, lines 64-81, then the listener is started: each address
\* is registered if its connection succeeds
AddServers ==
    /\ lpc = "init"
    /\ \E connected \in SUBSET Hosts : registeredHosts' = connected
    /\ lpc' = "select"
    /\ UNCHANGED <<now, poolVars, cfgVars, retry_tasks, sessVars, thr, task, events,
                   apiVars, dangling, inputQueue>>

Lost == Len(SelectSeq(inputQueue, LAMBDA m : m[2] = CONNECTION_LOST_MSG))

\* Client._listen, lines 93-105: select returns, and the hosts it reports in
\* error or whose liveness check fails are removed. A connection is lost only
\* while the horizon leaves the time to retry it.
Select ==
    /\ lpc = "select"
    /\ \E lost \in SUBSET registeredHosts :
          /\ lost # {} => /\ Lost + Cardinality(lost) <= MaxLost
                          /\ now + RETRY_INTERVAL <= MaxTime
          /\ \E socks \in Orders(lost) : SetClient(RemoveHosts(ClientState, socks))
    /\ lpc' = "restore"
    /\ UNCHANGED <<now, poolVars, cfgVars, retry_tasks, sessVars, thr, task, events,
                   apiVars>>

\* Client._listen, line 107 (and lines 110-111 when the call raises)
RestoreDanglingConnections ==
    /\ lpc = "restore"
    /\ \E connect \in [Hosts -> Outcomes] :
          SetClient(RestoreDanglingConnectionsOf(ClientState, connect))
    /\ lpc' = "select"
    /\ UNCHANGED <<now, poolVars, cfgVars, retry_tasks, sessVars, thr, task, events,
                   apiVars>>

NextClient ==
    \/ Tick
    \/ AddServers
    \/ Select
    \/ RestoreDanglingConnections

\* the listener thread runs, and time passes
SpecClient ==
    /\ InitClock
    /\ [][NextClient]_vars
    /\ WF_vars(Tick)
    /\ WF_vars(Select)
    /\ WF_vars(RestoreDanglingConnections)

\* ============================================================ properties
Submitted == 1..Len(task)
\* a call of stop on an initialized pool has begun and has not returned
Stopping == \E c \in Callers : apc[c] \in {"stop_flag", "stop_notify", "stop_retry",
                                           "stop_kill", "stop_join", "stop_none",
                                           "stop_end"}
\* the step in which the call of stop(kill_abruptly=True) returns
StopKillReturns ==
    \E c \in Callers : apc[c] \in {"stop_join", "stop_end"} /\ apc'[c] = "idle" /\ kill_abruptly
Terminal(e) == e.kind \in {"end", "error"}

\* s is a prefix of a sequence  start restart* (end | error)
StartRestartsTerminal(s) ==
    Len(s) > 0 =>
        /\ s[1].kind = "start"
        /\ \A k \in 2..Len(s) :
              s[k].kind = "restart" \/ (Terminal(s[k]) /\ k = Len(s))

\* C1 as stated: the events broadcast for a task are, in order, one start, any
\* number of restarts and at most one terminal event (end or error) that closes the
\* sequence; no terminal event comes without a start before it.
C1_StartRestartsTerminal == \A t \in Submitted : StartRestartsTerminal(events[t])

\* C1 amended: the events broadcast for a task are either the single event
\* error(-1) of a task that was never run (skipped as expired, or its first spawn
\* failed), or in order one start, any number of restarts and at most one terminal
\* event that closes the sequence.
C1_EventOrder ==
    \A t \in Submitted :
        \/ events[t] = <<StatusError(NOT_RUN_CODE)>>
        \/ StartRestartsTerminal(events[t])

\* a task went through start, restart and a terminal event
C1_Witness ==
    \E t \in Submitted :
        /\ Len(events[t]) >= 3
        /\ events[t][2].kind = "restart"
        /\ Terminal(events[t][Len(events[t])])

\* C2: in every reachable state a worker has at most one running child among all
\* the children it has spawned.
C2_OneLiveChild == \A i \in Workers : thr[i].live <= 1

\* a worker supervises the replacement of a child that exited early
C2_Witness ==
    \E i \in Workers :
        /\ thr[i].pc = "wait"
        /\ thr[i].process = "running"
        /\ thr[i].live = 1
        /\ Len(events[thr[i].task]) >= 2

\* C3: in no step does a worker whose terminate flag is set get a new child: a
\* start_process call on a flagged worker spawns nothing.
C3_FlaggedNeverSpawns ==
    [][\A i \in Workers :
          thr[i].hasToFinish =>
              /\ thr'[i].live <= thr[i].live
              /\ (thr'[i].process = "running" => thr[i].process = "running")]_vars

\* a flagged worker has called start_process for a restart and got None, the handle
\* of the child that exited being still in place
C3_Witness ==
    \E i \in Workers :
        /\ thr[i].hasToFinish
        /\ thr[i].pc = "restarted"
        /\ thr[i].p = "None"
        /\ thr[i].process = "exited"

\* C4: when stop(kill_abruptly=True) returns, no child spawned by a worker of the
\* pool is running.
C4_StopLeavesNoChild ==
    [][StopKillReturns =>
          \A i \in Workers : thr'[i].live = 0 /\ thr'[i].process # "running"]_vars

\* stop(kill_abruptly=True) is about to return and has cut a started task short
C4_Witness ==
    /\ apc["ctl"] = "stop_join"
    /\ kill_abruptly
    /\ \A i \in Workers : ~IsAlive(thr[i])
    /\ \E t \in Submitted : Len(events[t]) > 0 /\ \A k \in 1..Len(events[t]) : ~Terminal(events[t][k])

\* C5: a call of submit_task that makes its test while the pool is uninitialized, or
\* while a call of stop is in progress, is rejected: it does not go on to the
\* liveness sweep, the append and the release.
C5_SubmitRejected ==
    [][(~initialized \/ Stopping) =>
          \A c \in Callers :
              apc[c] = "idle" => apc'[c] \notin {"sub_sweep", "sub_thread", "sub_append"}]_vars

\* stop has issued its notify_all on the sleep condition and has not returned
Notified ==
    \E c \in Callers : apc[c] \in {"stop_retry", "stop_kill", "stop_join", "stop_none",
                                   "stop_end"}

\* C6: once stop has issued its notify_all, no worker is blocked on the sleep
\* condition waiting for the start time of its task, whenever the worker computed
\* its delay.
C6_NoSleeperAfterNotify == Notified => \A i \in Workers : thr[i].pc # "sleep"

\* C7: a call of stop(kill_abruptly=True) on an initialized pool eventually returns.
C7_StopReturns == (Stopping /\ kill_abruptly) ~> (\A c \in Callers : apc[c] = "idle")

\* worker i leaves the position pc in this step
Leaves(i, pc) == thr[i].pc = pc /\ thr'[i].pc # pc

\* C8 as stated: a task found expired with skip_expired set gets exactly one error
\* event with code -1.
C8_ExactlyOneError ==
    [][\A i \in Workers :
          Leaves(i, "skip") => events'[thr[i].task] = <<StatusError(NOT_RUN_CODE)>>]_vars

\* C8 amended: a task found late (time_to_task < 0) with skip_expired set is not
\* spawned, and the only event for it is one error with code -1, broadcast unless the
\* worker has been flagged to terminate by then, in which case there is no event; a
\* task with time_to_task = 0, or a late task with skip_expired unset, goes straight
\* to its spawn.
C8_ExpiredSkipped ==
    [][\A i \in Workers :
          LET w == thr[i]
              time_to_task == task[w.task].timestamp - session_start
                                  - (now - session_start_abs + correction_factor)
          IN  /\ Leaves(i, "delay") =>
                    /\ (skip_expired /\ time_to_task < 0) =>
                          /\ thr'[i].pc = "skip"
                          /\ thr'[i].rcode = NOT_RUN_CODE
                          /\ thr'[i].live = w.live
                          /\ events' = events
                    /\ (time_to_task = 0 \/ (time_to_task < 0 /\ ~skip_expired)) =>
                          thr'[i].pc = "spawn"
              /\ Leaves(i, "skip") =>
                    /\ thr'[i].pc = "acquire"
                    /\ thr'[i].live = w.live
                    /\ thr'[i].process # "running"
                    /\ events'[w.task] = IF w.hasToFinish
                                         THEN <<>>
                                         ELSE <<StatusError(NOT_RUN_CODE)>>]_vars

\* a worker flagged to terminate is about to report a task it skipped as expired
C8_Witness ==
    \E i \in Workers : thr[i].pc = "skip" /\ thr[i].hasToFinish /\ skip_expired

C10_TimeoutEnds ==
    [][\A i \in Workers :
          LET w == thr[i]
          IN  /\ Leaves(i, "timeout") =>
                    /\ thr'[i].pc = "result"
                    /\ thr'[i].rcode = 0
                    /\ thr'[i].process # "running"
                    /\ thr'[i].live = 0
                    /\ events' = events
              /\ (Leaves(i, "result") /\ w.rcode = 0) =>
                    /\ w.process # "running"
                    /\ events'[w.task] = IF w.hasToFinish
                                         THEN events[w.task]
                                         ELSE Append(events[w.task], StatusEnd)]_vars

\* the wait has timed out on a child that replaced one that had ended with an error
C10_Witness ==
    \E i \in Workers :
        /\ thr[i].pc = "timeout"
        /\ thr[i].process = "running"
        /\ Len(events[thr[i].task]) = 2
        /\ events[thr[i].task][2] = StatusRestart(<<1>>)

C13_NoRestartDuringStop ==
    [][(Stopping /\ kill_abruptly) =>
          /\ \A i \in Workers :
                ~(thr[i].pc \in {"restart", "restarted"} /\ thr'[i].process = "running"
                  /\ thr[i].process # "running")
          /\ \A t \in Submitted :
                Len(events'[t]) > Len(events[t]) =>
                    events'[t][Len(events'[t])].kind # "restart"
          /\ StopKillReturns => retry_tasks' = retry_tasks_old]_vars

\* the step in which a call of stop on an initialized pool returns
StopReturns ==
    \E c \in Callers : apc[c] \in {"stop_join", "stop_end"} /\ apc'[c] = "idle"

\* the step in which start initializes the pool
StartInitializes == ~initialized /\ initialized'

\* C14: after a stop the pool holds no thread and no worker has a running child;
\* after a start that follows it the pool is as after the first start: max_requests
\* fresh workers, an empty queue and a semaphore with no token.
C14_RestartLeaksNothing ==
    [][/\ StopReturns =>
             /\ threads' = <<>>
             /\ \A i \in Workers : ~IsAlive(thr'[i]) /\ thr'[i].process # "running"
       /\ StartInitializes =>
             /\ Len(threads') = MaxRequests
             /\ \A i \in Workers : thr'[i] = NewThread(0)
             /\ queue' = <<>>
             /\ queueSem' = 0]_vars

\* the step in which a call of submit_task passes the test of line 208
SubmitAccepts == \E c \in Callers : apc[c] = "idle" /\ apc'[c] = "sub_append"

\* C15: a lifecycle call in the wrong state changes nothing. While the pool is
\* not initialized (never started, or stopped) no step changes the queue, the
\* semaphore, the thread list, the flags, the session origins, the retry policy,
\* the tasks or the events, no thread is created and no call gets past its test;
\* while it is initialized the thread list stays, a thread is created only by the
\* liveness sweep of an accepted submit, and the queue changes only by an append
\* or a popleft.
C15_WrongStateNoOp ==
    [][/\ (~initialized /\ ~initialized') =>
             /\ UNCHANGED <<queue, queueSem, threads, terminating, cfgVars, cliVars, retry_tasks,
                            sessVars, task, events, apiVars>>
             /\ \A i \in Workers : IsAlive(thr'[i]) = IsAlive(thr[i])
       /\ (initialized /\ initialized') =>
             /\ threads' = threads
             /\ \A i \in Workers :
                   (~IsAlive(thr[i]) /\ IsAlive(thr'[i])) => SubmitAccepts
             /\ \/ queue' = queue
                \/ queue' = Append(queue, Len(task'))
                \/ queue # <<>> /\ queue' = Tail(queue)]_vars

\* a pool that was started, given a task and stopped, on which submit_task, stop
\* and start can all be called
C15_Witness ==
    /\ ~initialized
    /\ Len(task) = 1
    /\ \A c \in Callers : apc[c] = "idle"
    /\ \A i \in Workers : thr[i] # NoThread

\* the tasks that workers have in hand
Held(i) == IF IsAlive(thr[i]) /\ thr[i].task # 0 THEN {thr[i].task} ELSE {}

\* C16: while the pool is running the queue holds the accepted tasks in the order
\* of their submission, a task leaves the queue only from its head and only into
\* the hands of the one worker that takes that step, a worker gets a task only
\* from the head of the queue, and no task is in two hands or both queued and in
\* a hand.
C16_FifoExactlyOnce ==
    /\ [](/\ \A k \in 1..(Len(queue) - 1) : queue[k] < queue[k + 1]
          /\ \A i, j \in Workers : i # j => Held(i) \cap Held(j) = {}
          /\ \A i \in Workers, k \in 1..Len(queue) : queue[k] \notin Held(i))
    /\ [][(initialized /\ initialized') =>
             /\ queue' # queue /\ queue' # Append(queue, Len(task')) =>
                   /\ queue # <<>> /\ queue' = Tail(queue)
                   /\ \E i \in Workers :
                         /\ thr[i].pc = "pop" /\ thr'[i].task = Head(queue)
                         /\ \A j \in Workers \ {i} : thr'[j] = thr[j]
             /\ \A i \in Workers :
                   (thr'[i].task # thr[i].task /\ thr'[i].task # 0) =>
                       /\ queue # <<>> /\ thr'[i].task = Head(queue)
                       /\ queue' = Tail(queue)]_vars

\* two tasks were queued together and a worker has taken the first of them
C16_Witness ==
    /\ initialized
    /\ queue = <<2>>
    /\ \E i \in Workers : thr[i].pc = "delay" /\ thr[i].task = 1

\* C17: the step in which a submit is accepted runs the liveness sweep before the
\* task is queued: every thread that is dead is replaced by a fresh one in the
\* working loop with no process and a clear terminate flag, every live thread is
\* left as it is, and the pool keeps max_requests slots.
C17_SweepReplacesDead ==
    [][SubmitAccepts =>
          /\ queue' = queue /\ task' = task
          /\ Len(threads') = MaxRequests
          /\ \A i \in Workers :
                IF IsAlive(thr[i])
                THEN thr'[i] = thr[i]
                ELSE /\ thr'[i].pc = "acquire"
                     /\ ~thr'[i].hasToFinish
                     /\ thr'[i].process = "None"
                     /\ thr'[i].task = 0]_vars

\* the thread that ran task 1 ended on a failed restart, and the submit of the next
\* task has replaced it: the task is held by no worker and every worker is alive
C17_Witness ==
    /\ \E c \in Callers : apc[c] = "sub_append"
    /\ Len(task) = 1
    /\ events[1] # <<>> /\ events[1][Len(events[1])].kind = "restart"
    /\ \A i \in Workers : IsAlive(thr[i]) /\ thr[i].task = 0

\* the step in which a call of correct_time runs its body and returns
CorrectTimeReturns(c) == apc[c] = "correct_time" /\ apc'[c] = "idle"

\* the drift that a call of correct_time(ts) sees, in units of 1/Second
Drift(ts) ==
    (ts - (now - session_start_abs + session_start)) * Second - correction_factor

\* C18: correct_time(ts) changes correction_factor if and only if a session is
\* active and |diff| > 60 s; it then adds exactly 0.1 * diff; whether it does or
\* not, it leaves all other pool state as it is.
C18_CorrectionIff ==
    [][\A c \in Callers : CorrectTimeReturns(c) =>
          LET diff == Drift(atask[c][1]) IN
          /\ correction_factor' # correction_factor <=>
                 /\ session_start_abs # 0
                 /\ (diff > 60 * Second \/ diff < -60 * Second)
          /\ correction_factor' # correction_factor =>
                 10 * (correction_factor' - correction_factor) = diff
          /\ UNCHANGED <<now, poolVars, cfgVars, cliVars, retry_tasks, session_start,
                         session_start_abs, thr, task, events>>]_vars

\* a drift of 100 s has been corrected once, by 10 s
C18_Witness ==
    /\ correction_factor = 10 * Second
    /\ \A c \in Callers : apc[c] = "idle"

\* C19 as stated: with a session active, every call of correct_time leaves a
\* residual (offset minus correction_factor) of 0.9 times the residual before it.
C19_ResidualShrinks ==
    [][\A c \in Callers : (CorrectTimeReturns(c) /\ session_start_abs > 0) =>
          LET r == Drift(atask[c][1]) IN
          10 * (r - (correction_factor' - correction_factor)) = 9 * r]_vars

\* C19 amended: with a session active, a call of correct_time that sees a residual
\* of more than 60 s in magnitude leaves 0.9 times that residual; a call that sees
\* a residual within 60 s leaves it as it is, so that the residual never moves
\* once it is within the threshold.
C19_ResidualShrinksOutside ==
    [][\A c \in Callers : (CorrectTimeReturns(c) /\ session_start_abs > 0) =>
          LET r == Drift(atask[c][1])
              r2 == r - (correction_factor' - correction_factor) IN
          IF Abs(r) > CORRECTION_THRESHOLD * Second
          THEN 10 * r2 = 9 * r
          ELSE r2 = r]_vars

\* an offset of 100 s has been corrected twice: by 10 s, then by 9 s
C19_Witness ==
    /\ session_start_abs > 0
    /\ correction_factor = 19 * Second
    /\ \A c \in Callers : apc[c] = "idle"

\* the two session origins are those of one call of reset_session, or those that
\* the constructor and stop set
Paired == <<session_start, session_start_abs>> \in Sessions \cup {<<0, 0>>}

\* C20: a worker that computes time_to_task reads the session origins of one call
\* of reset_session (or of stop), never the relative origin of one call with the
\* absolute origin of another; reset_session leaves correction_factor unchanged.
C20_NoMixedPair ==
    [][/\ \A i \in Workers : Leaves(i, "delay") => Paired
       /\ (\E c \in Callers : apc[c] = "reset_abs" \/ apc'[c] = "reset_abs") =>
              correction_factor' = correction_factor]_vars

\* the workload time that the clock corrector gives for the wall time t
WorkloadTime(t) ==
    t - session_start_abs + session_start + correction_factor \div Second

\* the wall time of what worker w reports next: the spawn for a start event, the
\* replacement for a restart event, the end of the task for a terminal event
ReportedWallTime(w) ==
    CASE w.pc = "spawned" -> w.task_start_time
      [] w.pc = "restarted" -> w.task_restart_time
      [] w.pc = "skip" -> now
      [] OTHER -> w.task_end_time

\* C21: the timestamp that an event carries (the timestamp of its task when the
\* message is built) is the wall time of the spawn, restart or end translated
\* into workload time: wall time minus session_start_abs plus session_start, with
\* the correction factor applied.
C21_StampsInWorkloadTime ==
    [][\A i \in Workers :
          (thr[i].task # 0 /\ events'[thr[i].task] # events[thr[i].task]) =>
              task'[thr[i].task].timestamp = WorkloadTime(ReportedWallTime(thr[i]))]_vars

\* C22: with skip_expired false no child is spawned before the scheduled time of
\* its task: at the spawn the workload time (local clock through the session
\* origins, plus the correction factor) is not earlier than the task's timestamp.
C22_NotBeforeSchedule ==
    [][\A i \in Workers :
          (~skip_expired /\ Leaves(i, "spawn") /\ thr'[i].p # "None") =>
              WorkloadTime(now) >= task[thr[i].task].timestamp]_vars

\* C23: a worker that has acquired the semaphore and finds the queue empty leaves
\* its working loop, whether or not its terminate flag is set.
C23_EmptyQueueEndsLoop ==
    [][\A i \in Workers :
          (Leaves(i, "pop") /\ queue = <<>>) => ~IsAlive(thr'[i])]_vars

\* the command line asks for superuser rights: one of its words is sudo
RequestsElevation(args) == \E k \in 1..Len(args) : args[k] = SUDO_ID

\* worker i gets a child in this step
Spawns(i) == thr[i].pc \in {"spawn", "restart"} /\ thr'[i].p # "None"

\* C24: with root false no child is spawned for a command line that asks for
\* superuser rights, be it a command (list of words) or a shell script (one
\* joined string).
C24_NoElevationWithoutRoot ==
    [][\A i \in Workers :
          (~root /\ Spawns(i)) => ~RequestsElevation(task[thr[i].task].args)]_vars

\* C25: when the spawn of a replacement child returns None (the worker is flagged,
\* or Popen fails) no restart event is broadcast and the worker does not die: it
\* goes on to finish the task.
C25_RestartHasChild ==
    [][\A i \in Workers :
          (Leaves(i, "restarted") /\ thr[i].p = "None") =>
              /\ events' = events
              /\ IsAlive(thr'[i])]_vars

\* C26: while the pool is stopped (stop has returned and start has not been called
\* again) no event is broadcast, and a worker whose terminate flag has been set
\* broadcasts no start and no restart event.
C26_SilentAfterStop ==
    [][/\ ~initialized => events' = events
       /\ \A i \in Workers :
             (thr[i].hasToFinish /\ thr[i].pc \in {"spawned", "restarted"}
                 /\ Leaves(i, thr[i].pc)) => events' = events]_vars

\* C27: a task that was in the queue when a stop began is never executed: no child
\* is spawned for it and no event is broadcast for it during the shutdown, and
\* once the stop has returned no worker holds it and a later start does not bring
\* it back into the queue.
C27_PendingNeverRuns ==
    [][/\ \A i \in Workers :
             (thr[i].task \in pending) => ~Spawns(i)
       /\ \A t \in pending : events'[t] = events[t]
       /\ StopReturns => \A i \in Workers : thr'[i].task \notin pending
       /\ StartInitializes => queue' = <<>>]_vars

\* task t is in the queue
InQueue(t) == \E k \in 1..Len(queue) : queue[k] = t

\* the pool is running: started, and no stop under way
Running == initialized /\ ~Stopping

\* C28: while the pool is running, the semaphore count plus the number of workers
\* that have acquired a token and not yet popped is at least the queue length
\* minus the number of submits that have appended and not yet released, and every
\* task that is in the queue eventually leaves it.
C28_AcceptedEventuallyDequeued ==
    /\ [](Running =>
             queueSem + Cardinality({i \in Workers : thr[i].pc = "pop"})
                 >= Len(queue) - Cardinality({c \in Callers : apc[c] = "sub_release"}))
    /\ \A t \in 1..(MaxRequests + 1) : InQueue(t) ~> ~InQueue(t)

\* ------------------------------------------------------------ C29
IsDangling(h) == h \in Addrs(dangling)
TimeList(d, h) == (CHOOSE k \in 1..Len(d) : d[k].addr = h)
Entry(d, h) == d[TimeList(d, h)].time_list
\* the status messages queued for h
StatusOf(q, h) == SelectSeq(q, LAMBDA m : m[1] = h)
Count(q, h, msg) == Len(SelectSeq(q, LAMBDA m : m = <<h, msg>>))
Closings(q, h) == Count(q, h, CONNECTION_RESTORED_MSG) + Count(q, h, CONNECTION_FINALIZED_MSG)
LastStatus(q, h) == StatusOf(q, h)[Len(StatusOf(q, h))][2]
\* the step is a pass of _restore_dangling_connections
RestorePass == lpc = "restore" /\ lpc' = "select"
\* the step makes a reconnection attempt for h
Attempts(h) ==
    /\ RestorePass
    /\ IsDangling(h)
    /\ \/ Count(inputQueue', h, CONNECTION_RESTORED_MSG)
             > Count(inputQueue, h, CONNECTION_RESTORED_MSG)
       \/ h \in Addrs(dangling') /\ Entry(dangling', h)[1] # Entry(dangling, h)[1]
\* the step queues CONNECTION_FINALIZED for h
Finalizes(h) ==
    Count(inputQueue', h, CONNECTION_FINALIZED_MSG)
        > Count(inputQueue, h, CONNECTION_FINALIZED_MSG)

\* C29: every host whose connection is lost becomes dangling with one
\* CONNECTION_LOST message queued; while the listener runs it eventually leaves
\* the dangling set, with exactly one closing message: CONNECTION_RESTORED if an
\* attempt succeeded (the host is connected again), CONNECTION_FINALIZED otherwise,
\* and at the latest on the pass that finds more than retry_interval gone since the
\* loss; attempts for one host are at least retry_period apart, the first on the
\* next pass; no attempt is made for a host after it was restored or finalized.
C29_DanglingResolvedOnce ==
    /\ [][\A h \in Hosts :
             (h \in registeredHosts /\ h \notin registeredHosts') =>
                 /\ h \in Addrs(dangling')
                 /\ Count(inputQueue', h, CONNECTION_LOST_MSG)
                        = Count(inputQueue, h, CONNECTION_LOST_MSG) + 1]_vars
    /\ \A h \in Hosts : IsDangling(h) ~> ~IsDangling(h)
    /\ [](\A h \in Hosts :
             Closings(inputQueue, h) = Count(inputQueue, h, CONNECTION_LOST_MSG)
                                           - (IF IsDangling(h) THEN 1 ELSE 0))
    /\ [][\A h \in Hosts :
             (IsDangling(h) /\ h \notin Addrs(dangling')) =>
                 \/ /\ LastStatus(inputQueue', h) = CONNECTION_RESTORED_MSG
                    /\ h \in registeredHosts'
                 \/ /\ LastStatus(inputQueue', h) = CONNECTION_FINALIZED_MSG
                    /\ h \notin registeredHosts']_vars
    /\ [][\A h \in Hosts :
             (RestorePass /\ IsDangling(h)
                 /\ now - (Entry(dangling, h)[2] + RETRY_PERIOD) > RETRY_INTERVAL)
                 => Finalizes(h) /\ h \notin Addrs(dangling')]_vars
    /\ [][\A h \in Hosts :
             (IsDangling(h) /\ h \in Addrs(dangling')
                 /\ Entry(dangling', h)[1] # Entry(dangling, h)[1])
                 => Entry(dangling', h)[1] - Entry(dangling, h)[1] >= RETRY_PERIOD]_vars
    /\ [][\A h \in Hosts :
             (RestorePass /\ IsDangling(h)
                 /\ Entry(dangling, h)[1] = Entry(dangling, h)[2])
                 => Attempts(h) \/ Finalizes(h)]_vars
    /\ [][\A h \in Hosts :
             Attempts(h) => LastStatus(inputQueue, h) = CONNECTION_LOST_MSG]_vars

====
